---- MODULE Spec2Model ----
(***************************************************************************)
(* WiFi client monitor: the device discovery/merge engine (WiFiScanner),   *)
(* the device directory and blacklist (DeviceManager), the persistence     *)
(* store (Config.load_blacklist / save_blacklist on blacklist.json), the   *)
(* operator menu (WiFiManager.run) and the enforcement loop                *)
(* (WiFiManager.auto_monitor_mode).                                        *)
(*                                                                         *)
(* WiFiManager.__init__ builds TWO DeviceManager objects: the one inside   *)
(* WiFiScanner (scan_*: fed by every scan, read by every listing) and its  *)
(* own (mgr_*: the target of the operator's blacklist / remove).  Each     *)
(* loads blacklist.json once, in its constructor.                          *)
(*                                                                         *)
(* Of the menu, choices 1 (scan), 2 (blacklist), 3 (remove) and 6          *)
(* (auto-monitor) are followed.                                            *)
(***************************************************************************)
EXTENDS Integers, Sequences, FiniteSets, Bags, TLC

(***************************************************************************)
(* Bounds of the model and constants of the program.                        *)
(***************************************************************************)
\* The number of clock steps a behaviour may take.
MaxTicks == 1
\* The number of copies of one packet-filter rule the model counts.
MaxRules == 2

\* device_manager.py:34  "ACTIVE" if (current_time - last_seen) < 300
ACTIVE_WINDOW == 300
\* The clock advances in steps of the activity window, so that a record's age
\* is 0 (ACTIVE) or at least the window (OFFLINE; exactly the window at first).
ClockStep == ACTIVE_WINDOW
MaxTime == MaxTicks * ClockStep

(***************************************************************************)
(* Strings.  TLC's strings are atomic, so the string operations the code    *)
(* applies are tabulated over the strings of the model.                     *)
(***************************************************************************)
NONE == "None"          \* Python's None (JSON null)
UNKNOWN == "Unknown"    \* the placeholder of a host without MAC / hostname

\* config.LOCAL_IP, as detected at start-up
LOCAL_IP == "192.168.1.2"
IP5 == "192.168.1.5"
IP6 == "192.168.1.6"
IP127 == "192.168.1.127"    \* directed broadcast of a /25
IP255 == "192.168.1.255"
IPMCAST == "224.0.0.22"
\* config.NETWORK_RANGE.split('.')[0]
RANGE_PREFIX == "192"

\* The hardware addresses of the model: two stations, the broadcast address,
\* the all-zero address and an IPv4 multicast group address.
HwIds == {"01", "02", "ff", "00", "mc"}

\* `arp -a` on Windows prints lower-case, dash-separated addresses.
WinArpMac(hw) ==
    CASE hw = "01" -> "aa-bb-cc-dd-ee-01"
      [] hw = "02" -> "aa-bb-cc-dd-ee-02"
      [] hw = "ff" -> "ff-ff-ff-ff-ff-ff"
      [] hw = "00" -> "00-00-00-00-00-00"
      [] hw = "mc" -> "01-00-5e-00-00-16"

\* scapy's hwsrc is lower-case, colon-separated.
ScapyMac(hw) ==
    CASE hw = "01" -> "aa:bb:cc:dd:ee:01"
      [] hw = "02" -> "aa:bb:cc:dd:ee:02"
      [] hw = "ff" -> "ff:ff:ff:ff:ff:ff"
      [] hw = "00" -> "00:00:00:00:00:00"
      [] hw = "mc" -> "01:00:5e:00:00:16"

\* nmap prints upper-case, colon-separated addresses.
NmapMac(hw) ==
    CASE hw = "01" -> "AA:BB:CC:DD:EE:01"
      [] hw = "02" -> "AA:BB:CC:DD:EE:02"
      [] hw = "ff" -> "FF:FF:FF:FF:FF:FF"
      [] hw = "00" -> "00:00:00:00:00:00"
      [] hw = "mc" -> "01:00:5E:00:00:16"

\* A token of an `arp -a` line that is no hardware address.
NOT_A_MAC == "---"

\* str.replace('-', ':')
ReplaceDash(s) ==
    CASE s = "aa-bb-cc-dd-ee-01" -> "aa:bb:cc:dd:ee:01"
      [] s = "aa-bb-cc-dd-ee-02" -> "aa:bb:cc:dd:ee:02"
      [] s = "ff-ff-ff-ff-ff-ff" -> "ff:ff:ff:ff:ff:ff"
      [] s = "00-00-00-00-00-00" -> "00:00:00:00:00:00"
      [] s = "01-00-5e-00-00-16" -> "01:00:5e:00:00:16"
      [] s = "---" -> ":::"
      [] OTHER -> s

\* str.upper()
Upper(s) ==
    CASE s = "aa:bb:cc:dd:ee:01" -> "AA:BB:CC:DD:EE:01"
      [] s = "aa:bb:cc:dd:ee:02" -> "AA:BB:CC:DD:EE:02"
      [] s = "ff:ff:ff:ff:ff:ff" -> "FF:FF:FF:FF:FF:FF"
      [] s = "01:00:5e:00:00:16" -> "01:00:5E:00:00:16"
      [] s = "aa-bb-cc-dd-ee-01" -> "AA-BB-CC-DD-EE-01"
      [] s = "aa-bb-cc-dd-ee-02" -> "AA-BB-CC-DD-EE-02"
      [] s = "ff-ff-ff-ff-ff-ff" -> "FF-FF-FF-FF-FF-FF"
      [] s = "01-00-5e-00-00-16" -> "01-00-5E-00-00-16"
      [] s = "Unknown" -> "UNKNOWN"
      [] OTHER -> s

\* re.match(r'^([0-9A-Fa-f]{2}[:-]){5}([0-9A-Fa-f]{2})$', mac)
MatchesMacFormat(s) == s \notin {NOT_A_MAC, UNKNOWN, NONE, ""}

\* line.startswith(config.NETWORK_RANGE.split('.')[0])
StartsWithRangePrefix(ip) == ip \in {LOCAL_IP, IP5, IP6, IP127, IP255}

\* ip.endswith('.255')
EndsWith255(ip) == ip \in {IP255}

\* ip.startswith('224.') or ip.startswith('239.')
StartsWithMulticast(ip) == ip \in {IPMCAST}

\* The hardware address a MAC string denotes, whatever its case and separator.
HwOf(s) ==
    CASE s \in {WinArpMac("01"), ScapyMac("01"), NmapMac("01"), Upper(WinArpMac("01"))} -> "01"
      [] s \in {WinArpMac("02"), ScapyMac("02"), NmapMac("02"), Upper(WinArpMac("02"))} -> "02"
      [] s \in {WinArpMac("ff"), ScapyMac("ff"), NmapMac("ff"), Upper(WinArpMac("ff"))} -> "ff"
      [] s \in {WinArpMac("00"), ScapyMac("00")} -> "00"
      [] s \in {WinArpMac("mc"), ScapyMac("mc"), NmapMac("mc"), Upper(WinArpMac("mc"))} -> "mc"
      [] OTHER -> "none"

(***************************************************************************)
(* State.                                                                   *)
(***************************************************************************)
VARIABLES
    platform,               \* platform.system(): "Windows" or "Linux"
    now,                    \* time.time(), whole seconds
    file,                   \* blacklist.json
    scan_devices,           \* WiFiScanner.device_manager.devices (insertion order)
    scan_connection_times,  \* WiFiScanner.device_manager.connection_times
    scan_blacklist,         \* WiFiScanner.device_manager.blacklist
    mgr_devices,            \* WiFiManager.device_manager.devices
    mgr_connection_times,   \* WiFiManager.device_manager.connection_times
    mgr_blacklist,          \* WiFiManager.device_manager.blacklist
    nmap_available,         \* NmapState._available
    nm,                     \* WiFiScanner.nm: "scanner" or "None"
    firewall,               \* the host's block rules
    pc,                     \* where WiFiManager is: the menu or a place of auto_monitor_mode
    devices,                \* auto_monitor_mode: the cycle's device list
    idx,                    \* auto_monitor_mode: position in the cycle's device list
    calls,                  \* the external actions invoked by the operation in progress
    last                    \* the last operation and what it was given

vars == <<platform, now, file,
          scan_devices, scan_connection_times, scan_blacklist,
          mgr_devices, mgr_connection_times, mgr_blacklist,
          nmap_available, nm, firewall, pc, devices, idx, calls, last>>

EmptyMap == [m \in {} |-> NONE]

(***************************************************************************)
(* Persistence store (config.py).  blacklist.json is missing, unreadable    *)
(* (truncated or otherwise not JSON) or holds a mapping                     *)
(* MAC -> [timestamp, reason, ip].                                          *)
(***************************************************************************)
FileMissing == [state |-> "missing", data |-> EmptyMap]
FileCorrupt == [state |-> "corrupt", data |-> EmptyMap]
FileOf(blacklist) == [state |-> "ok", data |-> blacklist]

\* Config.load_blacklist: the mapping of the file; {} when the file does not
\* exist or json.load raises.
\* load_blacklist as it would be if it never read the file.
load_blacklist_always_empty(f) == EmptyMap

\* Config.load_blacklist: the mapping of a file that json.load can read, {}
\* for a file that is missing and, through except Exception, for one that
\* json.load or open cannot read.
load_blacklist(f) == IF f.state = "ok" THEN f.data ELSE EmptyMap

\* What the store may do on a write: succeed, or fail after open(..., 'w') has
\* truncated the file (json.dump raises, or the process is stopped).
SaveOutcomes == {"ok", "write_fails"}

\* Config.save_blacklist: open('blacklist.json', 'w') and json.dump into it.
\* The file after the call.
save_blacklist(f, blacklist, outcome) ==
    CASE outcome = "ok" -> FileOf(blacklist)
      [] outcome = "write_fails" -> FileCorrupt

\* save_blacklist as it would be with the write inside try/except.
SaveNeverRaises(outcome) == FALSE

\* Whether save_blacklist raised.
SaveRaises(outcome) == outcome # "ok"

(***************************************************************************)
(* Device directory (device_manager.py).  A dict of device records is a     *)
(* sequence of records in insertion order, with distinct 'mac' fields.      *)
(***************************************************************************)
RECURSIVE IndexOfMac(_, _)
\* The position of mac's record in an ordered dict d, 0 when mac is no key.
IndexOfMac(d, mac) ==
    IF d = <<>> THEN 0
    ELSE IF d[Len(d)].mac = mac THEN Len(d)
    ELSE IndexOfMac(SubSeq(d, 1, Len(d) - 1), mac)

Keys(d) == {d[i].mac : i \in 1..Len(d)}

\* d[rec.mac] = rec : an existing key keeps its position, a new one goes last.
DictSet(d, rec) ==
    LET i == IndexOfMac(d, rec.mac)
    IN  IF i = 0 THEN Append(d, rec) ELSE [d EXCEPT ![i] = rec]

\* d[mac]
DictGet(d, mac) == d[IndexOfMac(d, mac)]

\* update_device with the test of line 16 left out: every call stamps the MAC.
update_connection_times_every_call(connection_times, mac, current_time) ==
    [m \in DOMAIN connection_times \cup {mac} |->
        IF m = mac THEN current_time ELSE connection_times[m]]

\* update_device, lines 16-17: connection_times after the call.
update_connection_times(connection_times, mac, current_time) ==
    IF mac \notin DOMAIN connection_times
    THEN [m \in DOMAIN connection_times \cup {mac} |->
            IF m = mac THEN current_time ELSE connection_times[m]]
    ELSE connection_times

\* update_device, lines 19-25: the record stored for device_info.
\* The record as it would be with the two times stored under each other's key.
device_record_swapped_times(device_info, connection_times, blacklist, current_time) ==
    [mac |-> device_info.mac,
     ip |-> device_info.ip,
     hostname |-> device_info.hostname,
     first_seen |-> current_time,
     last_seen |-> connection_times[device_info.mac],
     connection_duration |-> current_time - connection_times[device_info.mac],
     is_blacklisted |-> device_info.mac \in DOMAIN blacklist]

\* The record as it would be if last_seen were taken from connection_times.
device_record_stale_last_seen(device_info, connection_times, blacklist, current_time) ==
    [mac |-> device_info.mac,
     ip |-> device_info.ip,
     hostname |-> device_info.hostname,
     first_seen |-> connection_times[device_info.mac],
     last_seen |-> connection_times[device_info.mac],
     connection_duration |-> current_time - connection_times[device_info.mac],
     is_blacklisted |-> device_info.mac \in DOMAIN blacklist]

device_record(device_info, connection_times, blacklist, current_time) ==
    [mac |-> device_info.mac,
     ip |-> device_info.ip,
     hostname |-> device_info.hostname,
     first_seen |-> connection_times[device_info.mac],
     last_seen |-> current_time,
     connection_duration |-> current_time - connection_times[device_info.mac],
     is_blacklisted |-> device_info.mac \in DOMAIN blacklist]

\* update_device assigning a fresh dict instead of one key of self.devices.
update_device_fresh_dict(dm, device_info, current_time) ==
    LET ct == update_connection_times(dm.connection_times, device_info.mac, current_time)
    IN  [dm EXCEPT !.connection_times = ct,
                   !.devices = <<device_record(device_info, ct, dm.blacklist, current_time)>>]

\* DeviceManager.update_device on a manager [devices, connection_times, blacklist].
update_device(dm, device_info, current_time) ==
    LET ct == update_connection_times(dm.connection_times, device_info.mac, current_time)
    IN  [dm EXCEPT !.connection_times = ct,
                   !.devices = DictSet(dm.devices,
                                       device_record(device_info, ct, dm.blacklist, current_time))]

\* DeviceManager.format_duration: "HH:MM:SS" as <<hours, minutes, seconds>>.
format_duration(seconds) ==
    <<seconds \div 3600, (seconds % 3600) \div 60, seconds % 60>>

\* get_all_devices, line 34, with the window closed at its end (<= for <).
status_of_inclusive(info, current_time) ==
    IF current_time - info.last_seen <= ACTIVE_WINDOW THEN "ACTIVE" ELSE "OFFLINE"

\* get_all_devices, line 34.
status_of(info, current_time) ==
    IF current_time - info.last_seen < ACTIVE_WINDOW THEN "ACTIVE" ELSE "OFFLINE"

\* DeviceManager.get_all_devices.  first_seen is rendered to the second, which
\* is the resolution of the model's clock.
get_all_devices(devs, current_time) ==
    [i \in 1..Len(devs) |->
        [mac |-> devs[i].mac,
         ip |-> devs[i].ip,
         hostname |-> devs[i].hostname,
         connection_duration |-> format_duration(devs[i].connection_duration),
         is_blacklisted |-> devs[i].is_blacklisted,
         first_seen |-> devs[i].first_seen,
         status |-> status_of(devs[i], current_time)]]

(***************************************************************************)
(* Scan backends and merge (wifi_scanner.py).                               *)
(***************************************************************************)
\* _is_valid_device without the comparison with config.LOCAL_IP.
is_valid_device_without_local_ip(ip, mac) ==
    /\ mac \notin {"FF-FF-FF-FF-FF-FF", "00:00:00:00:00:00"}
    /\ ~(EndsWith255(ip) \/ StartsWithMulticast(ip))

\* WiFiScanner._is_valid_device
_is_valid_device(ip, mac) ==
    /\ mac \notin {"FF-FF-FF-FF-FF-FF", "00:00:00:00:00:00"}
    /\ ~(EndsWith255(ip) \/ StartsWithMulticast(ip))
    /\ ip # LOCAL_IP

Device(ip, mac, hostname) == [ip |-> ip, mac |-> mac, hostname |-> hostname]

RECURSIVE get_windows_arp_rows(_)
\* get_windows_arp_table, the loop over the lines of `arp -a`.
get_windows_arp_rows(rows) ==
    IF rows = <<>> THEN <<>>
    ELSE LET r == Head(rows)
             rest == get_windows_arp_rows(Tail(rows))
             mac == Upper(ReplaceDash(r.mac))
         IN  IF ~StartsWithRangePrefix(r.ip) THEN rest
             ELSE IF ~MatchesMacFormat(r.mac) THEN rest
             ELSE IF _is_valid_device(r.ip, mac)
                  THEN <<Device(r.ip, mac, r.hostname)>> \o rest
                  ELSE rest

\* WiFiScanner.get_windows_arp_table: [] when the command fails or times out.
get_windows_arp_table(out) ==
    IF out.ok THEN get_windows_arp_rows(out.rows) ELSE <<>>

RECURSIVE scapy_arp_rows(_)
\* scan_arp, the loop over the answers srp received.
scapy_arp_rows(rows) ==
    IF rows = <<>> THEN <<>>
    ELSE LET r == Head(rows)
             rest == scapy_arp_rows(Tail(rows))
         IN  IF _is_valid_device(r.ip, r.mac)
             THEN <<Device(r.ip, r.mac, r.hostname)>> \o rest
             ELSE rest

\* WiFiScanner.scan_arp
scan_arp(os, out) ==
    IF os = "Windows" THEN get_windows_arp_table(out)
    ELSE IF out.ok THEN scapy_arp_rows(out.rows) ELSE <<>>

\* self.nm[host]['addresses'].get('mac', 'Unknown')
nmap_mac(r) == IF r.mac = NONE THEN UNKNOWN ELSE r.mac

RECURSIVE scan_nmap_rows(_)
\* scan_nmap, the loop over nm.all_hosts().
scan_nmap_rows(rows) ==
    IF rows = <<>> THEN <<>>
    ELSE LET r == Head(rows)
             rest == scan_nmap_rows(Tail(rows))
             mac == Upper(nmap_mac(r))
         IN  IF ~r.up THEN rest
             ELSE IF nmap_mac(r) = UNKNOWN THEN rest
             ELSE IF _is_valid_device(r.ip, mac)
                  THEN <<Device(r.ip, mac, r.hostname)>> \o rest
                  ELSE rest

\* Whether scan_nmap runs nmap at all.
nmap_usable(available, handle) == available /\ handle # NONE

\* WiFiScanner.scan_nmap: the devices returned.
scan_nmap(available, handle, out) ==
    IF ~nmap_usable(available, handle) THEN <<>>
    ELSE IF out.ok THEN scan_nmap_rows(out.rows) ELSE <<>>

\* scan_nmap's except branch: NmapState.disable() and self.nm = None.
nmap_fails(available, handle, out) == nmap_usable(available, handle) /\ ~out.ok

\* self.nm[host].hostname() or "Unknown"
nmap_hostname(r) == IF r.hostname = "" THEN UNKNOWN ELSE r.hostname

RECURSIVE scan_multiple_rows(_)
\* scan_multiple_ranges, the loops over the ranges and their hosts; a range whose
\* scan raises contributes no row.
scan_multiple_rows(rows) ==
    IF rows = <<>> THEN <<>>
    ELSE LET r == Head(rows)
             rest == scan_multiple_rows(Tail(rows))
         IN  IF ~r.up THEN rest
             ELSE IF _is_valid_device(r.ip, nmap_mac(r))
                  THEN <<Device(r.ip, nmap_mac(r), nmap_hostname(r))>> \o rest
                  ELSE rest

\* WiFiScanner.scan_multiple_ranges
scan_multiple_ranges(available, out) ==
    IF ~available THEN <<>> ELSE scan_multiple_rows(out.rows)

RECURSIVE merge_into(_, _)
\* for device in found: merged_devices[device['mac']] = device
merge_into(merged, found) ==
    IF found = <<>> THEN merged
    ELSE merge_into(DictSet(merged, Head(found)), Tail(found))

\* The merge with the two backends taken in the other order.
merge_devices_arp_last(arp_devices, nmap_devices, multi_range_devices) ==
    LET merged == merge_into(merge_into(<<>>, nmap_devices), arp_devices)
    IN  IF merged = <<>> THEN merge_into(merged, multi_range_devices) ELSE merged

\* get_connected_devices, lines 264-273: the merged dict of one scan.
\* The merge without lines 268-273.
merge_devices_without_ranges(arp_devices, nmap_devices, multi_range_devices) ==
    merge_into(merge_into(<<>>, arp_devices), nmap_devices)

merge_devices(arp_devices, nmap_devices, multi_range_devices) ==
    LET merged == merge_into(merge_into(<<>>, arp_devices), nmap_devices)
    IN  IF merged = <<>> THEN merge_into(merged, multi_range_devices) ELSE merged

RECURSIVE update_all(_, _, _)
\* get_connected_devices, lines 276-278.
update_all(dm, merged, current_time) ==
    IF merged = <<>> THEN dm
    ELSE update_all(IF Head(merged).mac # UNKNOWN
                    THEN update_device(dm, Head(merged), current_time)
                    ELSE dm,
                    Tail(merged), current_time)

(***************************************************************************)
(* What the environment may answer.                                         *)
(***************************************************************************)
\* One backend call: it fails (raises or times out) or returns rows.
Failed == [ok |-> FALSE, rows |-> <<>>]
Returned(rows) == [ok |-> TRUE, rows |-> rows]
NoRows == Returned(<<>>)

Row(ip, mac, hostname) == [ip |-> ip, mac |-> mac, hostname |-> hostname, up |-> TRUE]

ArpMac(os, hw) == IF os = "Windows" THEN WinArpMac(hw) ELSE ScapyMac(hw)

\* The answers of the backends while the operator and the enforcement loop are
\* followed: station 01 in the address table, station 02 in nmap's list.
ArpInputs(os) == {Failed, NoRows, Returned(<<Row(IP5, ArpMac(os, "01"), "laptop")>>)}
NmapInputs == {NoRows, Returned(<<Row(IP6, NmapMac("02"), UNKNOWN)>>)}
MultiInputs == {NoRows, Returned(<<Row(IP6, NmapMac("02"), "")>>)}

\* The answers of the backends while the scans alone are followed.  The address
\* table (Windows) or the ARP answers (elsewhere): station 01 at either address,
\* the scanning host's own address, the all-zero address and, on Windows, the
\* broadcast rows of `arp -a` (of a /24 and of a /25), a multicast row and a
\* line whose second token is no MAC.
WideArpRows(os) ==
    {Row(IP5, ArpMac(os, "01"), "laptop"), Row(IP6, ArpMac(os, "01"), UNKNOWN),
     Row(LOCAL_IP, ArpMac(os, "02"), UNKNOWN), Row(IP5, ArpMac(os, "00"), "laptop")}
    \cup (IF os = "Windows"
          THEN {Row(IP127, ArpMac(os, "ff"), UNKNOWN), Row(IP255, ArpMac(os, "ff"), UNKNOWN),
                Row(IP5, NOT_A_MAC, "laptop"), Row(IPMCAST, ArpMac(os, "mc"), UNKNOWN)}
          ELSE {})
WideArpInputs(os) == {Failed, NoRows} \cup {Returned(<<r>>) : r \in WideArpRows(os)}

\* The hosts nmap may list: stations 01 and 02, the scanning host with or
\* without a MAC, a host without data.
WideNmapRows ==
    {Row(IP5, NmapMac("01"), "laptop-win"), Row(IP6, NmapMac("02"), UNKNOWN),
     Row(LOCAL_IP, NmapMac("02"), UNKNOWN), Row(LOCAL_IP, NONE, UNKNOWN),
     [Row(IP6, NmapMac("02"), UNKNOWN) EXCEPT !.up = FALSE]}
WideNmapInputs == {Failed, NoRows} \cup {Returned(<<r>>) : r \in WideNmapRows}

\* The hosts of the common ranges, with nmap's own hostname() ('' when none).
WideMultiRows ==
    {Row(IP5, NmapMac("01"), "laptop-win"), Row(IP6, NmapMac("02"), ""),
     Row(LOCAL_IP, NmapMac("02"), ""), Row(LOCAL_IP, NONE, "")}
WideMultiInputs == {NoRows} \cup {Returned(<<r>>) : r \in WideMultiRows}

\* The contents blacklist.json may have when the process starts: none, or
\* entries in the format blacklist_device writes.  Station 02's entry has the
\* null 'ip' that blacklist_device on the manager's DeviceManager writes;
\* station 01's entry has an address in 'ip', the field remove_from_blacklist
\* reads, as a file edited by hand or written by another build has it.
Entry(timestamp, reason, ip) == [timestamp |-> timestamp, reason |-> reason, ip |-> ip]
EarlierBlacklist ==
    [m \in {NmapMac("01"), NmapMac("02")} |->
        IF m = NmapMac("01") THEN Entry(0, "curfew", IP6) ELSE Entry(0, "guest", NONE)]
InitialFiles == {FileMissing, FileOf(EarlierBlacklist)}

\* What the operator may type as the reason, and at "Enter MAC address to
\* remove from blacklist".
Reasons == {"curfew"}
TypedMacs(blacklist) == DOMAIN blacklist \cup {ScapyMac("02")}

(***************************************************************************)
(* External actions: the packet filter of the host.  A rule is an address   *)
(* and a chain; the filter is a bag of rules.                               *)
(***************************************************************************)
Rule(ip, chain) == [ip |-> ip, chain |-> chain]

\* netsh advfirewall firewall delete rule name="Block_WiFi_Manager_<ip>"
delete_rule(fw, ip) ==
    LET keep == {r \in BagToSet(fw) : r.ip # ip}
    IN  [r \in keep |-> fw[r]]

\* netsh advfirewall firewall add rule ... / iptables -A ...
add_rule(fw, rule) == fw (+) SetToBag({rule})

\* Config.block_ip_windows: delete the rule of that name, add an outbound block
\* rule.  netsh changes nothing when it is refused (no elevation).
block_ip_windows(fw, ip, netsh_ok) ==
    IF netsh_ok THEN add_rule(delete_rule(fw, ip), Rule(ip, "out")) ELSE fw

\* Config.unblock_ip_windows
unblock_ip_windows(fw, ip, netsh_ok) ==
    IF netsh_ok THEN delete_rule(fw, ip) ELSE fw

\* NotificationSender.block_via_windows_firewall: an inbound rule, unless
\* `show rule` finds one of that name.
block_via_windows_firewall(fw, ip, netsh_ok) ==
    IF netsh_ok /\ ~(\E r \in BagToSet(fw) : r.ip = ip)
    THEN add_rule(fw, Rule(ip, "in")) ELSE fw

\* NotificationSender.block_via_iptables: two appended DROP rules.
block_via_iptables(fw, ip, iptables_ok) ==
    IF iptables_ok
    THEN add_rule(add_rule(fw, Rule(ip, "INPUT")), Rule(ip, "OUTPUT"))
    ELSE fw

\* NotificationSender.disconnect_device: the packet filter after the call.
\* wlan_found: whether `netsh wlan show interfaces` names an interface.
disconnect_device(os, fw, ip, tool_ok, wlan_found) ==
    IF os = "Windows"
    THEN LET forced == block_ip_windows(fw, ip, tool_ok)
         IN  IF wlan_found THEN forced
             ELSE block_via_windows_firewall(forced, ip, tool_ok)
    ELSE block_via_iptables(fw, ip, tool_ok)

\* ok: whether the tool the action runs did its work.
Call(action, mac, ip, ok) == [action |-> action, mac |-> mac, ip |-> ip, ok |-> ok]

(***************************************************************************)
(* Construction: WiFiManager.__init__ -> WiFiScanner.__init__,              *)
(* DeviceManager.__init__ (twice), NmapState.initialize().                  *)
(***************************************************************************)
NoOp(name) == [op |-> name]

Construct(f, nmap_ok) ==
    /\ scan_devices = <<>>
    /\ scan_connection_times = EmptyMap
    /\ scan_blacklist = load_blacklist(f)
    /\ mgr_devices = <<>>
    /\ mgr_connection_times = EmptyMap
    /\ mgr_blacklist = load_blacklist(f)
    /\ nmap_available = nmap_ok
    /\ nm = IF nmap_ok THEN "scanner" ELSE NONE
    /\ pc = "menu"
    /\ devices = <<>>
    /\ idx = 0
    /\ calls = <<>>
    /\ last = NoOp("start")

Init ==
    /\ platform \in {"Windows", "Linux"}
    /\ now = 0
    /\ file \in InitialFiles
    /\ firewall = EmptyBag
    /\ \E nmap_ok \in BOOLEAN : Construct(file, nmap_ok)

(***************************************************************************)
(* WiFiScanner.get_connected_devices                                        *)
(***************************************************************************)
ScannerDM == [devices |-> scan_devices,
              connection_times |-> scan_connection_times,
              blacklist |-> scan_blacklist]

\* The scan inputs that matter in a state: nmap is asked only when usable, the
\* common ranges only when nmap is available and the merge of the two backends
\* is empty.
ScanInputs(arps, nmaps, multis) ==
    {in \in [arp : arps, nmap : nmaps, multi : multis] :
        /\ ~nmap_usable(nmap_available, nm) => in.nmap = NoRows
        /\ (\/ scan_arp(platform, in.arp) # <<>>
            \/ scan_nmap(nmap_available, nm, in.nmap) # <<>>
            \/ ~nmap_available
            \/ nmap_fails(nmap_available, nm, in.nmap)) => in.multi = NoRows}

\* get_connected_devices as it would be if the exception of a backend left
\* the scan instead of being caught inside scan_arp and scan_nmap.
get_connected_devices_aborting(in) ==
    LET arp_devices == scan_arp(platform, in.arp)
        nmap_devices == scan_nmap(nmap_available, nm, in.nmap)
        failed == nmap_fails(nmap_available, nm, in.nmap)
        available == nmap_available /\ ~failed
        multi_range_devices == scan_multiple_ranges(available, in.multi)
        merged_devices == merge_devices(arp_devices, nmap_devices, multi_range_devices)
        dm == IF failed \/ ~in.arp.ok
              THEN ScannerDM
              ELSE update_all(ScannerDM, merged_devices, now)
    IN  /\ scan_devices' = dm.devices
        /\ scan_connection_times' = dm.connection_times
        /\ nmap_available' = available
        /\ nm' = IF failed THEN NONE ELSE nm
        /\ UNCHANGED scan_blacklist

\* get_connected_devices as it would be if scan_nmap's except branch left
\* NmapState and self.nm alone.
get_connected_devices_keeping_nmap(in) ==
    LET arp_devices == scan_arp(platform, in.arp)
        nmap_devices == scan_nmap(nmap_available, nm, in.nmap)
        multi_range_devices == scan_multiple_ranges(nmap_available, in.multi)
        merged_devices == merge_devices(arp_devices, nmap_devices, multi_range_devices)
        dm == update_all(ScannerDM, merged_devices, now)
    IN  /\ scan_devices' = dm.devices
        /\ scan_connection_times' = dm.connection_times
        /\ UNCHANGED <<nmap_available, nm, scan_blacklist>>

get_connected_devices(in) ==
    LET arp_devices == scan_arp(platform, in.arp)
        nmap_devices == scan_nmap(nmap_available, nm, in.nmap)
        failed == nmap_fails(nmap_available, nm, in.nmap)
        available == nmap_available /\ ~failed
        multi_range_devices == scan_multiple_ranges(available, in.multi)
        merged_devices == merge_devices(arp_devices, nmap_devices, multi_range_devices)
        dm == update_all(ScannerDM, merged_devices, now)
    IN  /\ scan_devices' = dm.devices
        /\ scan_connection_times' = dm.connection_times
        /\ nmap_available' = available
        /\ nm' = IF failed THEN NONE ELSE nm
        /\ UNCHANGED scan_blacklist

(***************************************************************************)
(* DeviceManager.blacklist_device / remove_from_blacklist                   *)
(***************************************************************************)
\* The names device_manager.py binds at module level (its imports and class).
device_manager_names == {"time", "datetime", "timedelta", "config", "DeviceManager"}

\* Python truthiness of an 'ip' value.
Truthy(v) == v \notin {NONE, ""}

\* blacklist_device, lines 58-62: the address of mac in this manager's devices.
device_ip_of(devs, mac) ==
    IF mac \in Keys(devs) THEN DictGet(devs, mac).ip ELSE NONE

\* `device_ip and platform.system() == "Windows"`: "NameError" when the second
\* operand is evaluated and the name platform is not bound, else the value.
windows_guard(device_ip, os) ==
    IF ~Truthy(device_ip) THEN "False"
    ELSE IF "platform" \notin device_manager_names THEN "NameError"
    ELSE IF os = "Windows" THEN "True" ELSE "False"

\* remove_from_blacklist without the del of line 84.
MapDelForgotten(map, key) == map

\* map[key] = value
MapSet(map, key, value) ==
    [m \in DOMAIN map \cup {key} |-> IF m = key THEN value ELSE map[m]]
\* del map[key]
MapDel(map, key) == [m \in DOMAIN map \ {key} |-> map[m]]

\* DeviceManager.blacklist_device on the manager's own DeviceManager.
blacklist_device(mac_address, reason, save) ==
    LET device_ip == device_ip_of(mgr_devices, mac_address)
        blacklist == MapSet(mgr_blacklist, mac_address, Entry(now, reason, device_ip))
        guard == IF SaveRaises(save) THEN "IOError" ELSE windows_guard(device_ip, platform)
    IN  /\ mgr_blacklist' = blacklist
        /\ file' = save_blacklist(file, blacklist, save)
        /\ IF guard = "True"
           THEN \E netsh_ok \in BOOLEAN :
                    /\ firewall' = block_ip_windows(firewall, device_ip, netsh_ok)
                    /\ calls' = <<Call("block", mac_address, device_ip, netsh_ok)>>
           ELSE firewall' = firewall /\ calls' = <<>>
        /\ last' = [op |-> "add", mac |-> mac_address, before |-> mgr_blacklist,
                    error |-> IF guard \in {"IOError", "NameError"} THEN guard ELSE "none"]

\* What a remove of mac follows: an add of mac that returned, for a MAC that
\* had no entry or had one, or anything else.
AfterWhat(mac) ==
    IF last.op = "add" /\ last.mac = mac /\ last.error = "none"
    THEN IF mac \in DOMAIN last.before THEN "add of a listed MAC" ELSE "add of a new MAC"
    ELSE "other"

\* DeviceManager.remove_from_blacklist on the manager's own DeviceManager.
remove_from_blacklist(mac_address, save) ==
    IF mac_address \in DOMAIN mgr_blacklist
    THEN LET device_ip == mgr_blacklist[mac_address].ip
             blacklist == MapDel(mgr_blacklist, mac_address)
             guard == IF SaveRaises(save) THEN "IOError"
                      ELSE windows_guard(device_ip, platform)
         IN  /\ mgr_blacklist' = blacklist
             /\ file' = save_blacklist(file, blacklist, save)
             /\ IF guard = "True"
                THEN \E netsh_ok \in BOOLEAN :
                         /\ firewall' = unblock_ip_windows(firewall, device_ip, netsh_ok)
                         /\ calls' = <<Call("unblock", mac_address, device_ip, netsh_ok)>>
                ELSE firewall' = firewall /\ calls' = <<>>
             /\ last' = [op |-> "remove", mac |-> mac_address, stored_ip |-> device_ip,
                         after |-> AfterWhat(mac_address),
                         error |-> IF guard \in {"IOError", "NameError"} THEN guard
                                   ELSE "none"]
    ELSE /\ last' = [op |-> "remove", mac |-> mac_address, stored_ip |-> NONE,
                     after |-> AfterWhat(mac_address), error |-> "not found"]
         /\ calls' = <<>>
         /\ UNCHANGED <<mgr_blacklist, file, firewall>>

(***************************************************************************)
(* The operator's menu (WiFiManager.run).                                   *)
(***************************************************************************)
Inputs == ScanInputs(ArpInputs(platform), NmapInputs, MultiInputs)

\* Whether a backend was handed an observation at the scanning host's address.
OffersLocal(in) ==
    \E out \in {in.arp, in.nmap, in.multi} :
        \E i \in 1..Len(out.rows) : out.rows[i].ip = LOCAL_IP

\* What last keeps of a scan from the menu: what each backend returned to
\* get_connected_devices (scan_multiple_ranges is called only on an empty merge).
ScanTrace(in) ==
    LET arp_devices == scan_arp(platform, in.arp)
        nmap_devices == scan_nmap(nmap_available, nm, in.nmap)
        available == nmap_available /\ ~nmap_fails(nmap_available, nm, in.nmap)
        merged == merge_into(merge_into(<<>>, arp_devices), nmap_devices)
    IN  [op |-> "scan",
         arp_devices |-> arp_devices,
         nmap_devices |-> nmap_devices,
         multi_range_devices |->
            IF merged = <<>>
            THEN scan_multiple_ranges(available, in.multi) ELSE <<>>,
         local_offered |-> OffersLocal(in)]

\* Choice 1: scan and display.
ScanDevices ==
    /\ pc = "menu"
    /\ \E in \in Inputs :
        /\ get_connected_devices(in)
        /\ last' = ScanTrace(in)
    /\ calls' = <<>>
    /\ UNCHANGED <<platform, now, file, mgr_devices, mgr_connection_times,
                   mgr_blacklist, firewall, pc, devices, idx>>

\* Choice 2, WiFiManager.blacklist_device_interactive: scan, pick a listed
\* device (choice 0, a number out of range or no number: nothing), blacklist it.
BlacklistDeviceSaving(saves) ==
    /\ pc = "menu"
    /\ \E in \in Inputs :
        /\ get_connected_devices(in)
        /\ LET listed == get_all_devices(scan_devices', now)
           IN  \/ /\ last' = NoOp("add cancelled")
                  /\ calls' = <<>>
                  /\ UNCHANGED <<mgr_blacklist, file, firewall>>
               \/ \E choice \in 1..Len(listed), reason \in Reasons, save \in saves :
                     blacklist_device(listed[choice].mac, reason, save)
    /\ UNCHANGED <<platform, now, mgr_devices, mgr_connection_times, pc, devices, idx>>

\* Choice 2 while the disk takes every write.
BlacklistDevice == BlacklistDeviceSaving({"ok"})

\* Choice 3: remove the MAC typed.
RemoveFromBlacklistSaving(saves) ==
    /\ pc = "menu"
    /\ \E mac \in TypedMacs(mgr_blacklist), save \in saves :
        remove_from_blacklist(mac, save)
    /\ UNCHANGED <<platform, now, scan_devices, scan_connection_times, scan_blacklist,
                   mgr_devices, mgr_connection_times, nmap_available, nm,
                   pc, devices, idx>>

\* Choice 3 while the disk takes every write.
RemoveFromBlacklist == RemoveFromBlacklistSaving({"ok"})

(***************************************************************************)
(* Choice 6, WiFiManager.auto_monitor_mode.  pc: "scanning" before the      *)
(* cycle's get_connected_devices, "enforcing" in the loop over the devices, *)
(* "grace" in the 5 s before a disconnect, "idle" in the sleep between two  *)
(* cycles.                                                                  *)
(***************************************************************************)
StartMonitor ==
    /\ pc = "menu"
    /\ pc' = "scanning"
    /\ last' = NoOp("monitor")
    /\ calls' = <<>>
    /\ UNCHANGED <<platform, now, file, scan_devices, scan_connection_times,
                   scan_blacklist, mgr_devices, mgr_connection_times, mgr_blacklist,
                   nmap_available, nm, firewall, devices, idx>>

\* lines 199-204: the cycle's scan.
MonitorScan ==
    /\ pc = "scanning"
    /\ \E in \in Inputs : get_connected_devices(in)
    /\ devices' = get_all_devices(scan_devices', now)
    /\ idx' = 1
    /\ pc' = "enforcing"
    /\ calls' = <<>>
    /\ UNCHANGED <<platform, now, file, mgr_devices, mgr_connection_times,
                   mgr_blacklist, firewall, last>>

\* line 209
must_block(device) == device.is_blacklisted /\ device.status = "ACTIVE"

\* What the privilege query of the system may do: report elevated privilege,
\* report none, or raise (ctypes or geteuid missing on the platform).
PrivilegeOutcomes == {"elevated", "plain", "raises"}

\* check_admin_privileges with the bare except answering True.
check_admin_privileges_true_on_error(outcome) == outcome # "plain"

\* WiFiManager.check_admin_privileges: what the system reports, False when the
\* query raises.
check_admin_privileges(outcome) == outcome = "elevated"

\* The loop body if a failing netsh left config.block_ip_windows as an
\* exception: the cycle is abandoned and run() returns to the menu.
MonitorDeviceBlockRaises ==
    /\ pc = "enforcing"
    /\ idx <= Len(devices)
    /\ LET device == devices[idx]
       IN  IF device.is_blacklisted /\ device.status = "ACTIVE"
           THEN \E netsh_ok \in BOOLEAN, notify_ok \in BOOLEAN, privilege \in PrivilegeOutcomes :
                LET admin == check_admin_privileges(privilege) IN
                /\ firewall' = IF platform = "Windows"
                               THEN block_ip_windows(firewall, device.ip, netsh_ok)
                               ELSE firewall
                /\ calls' = calls
                        \o (IF platform = "Windows"
                            THEN <<Call("block", device.mac, device.ip, netsh_ok)>>
                            ELSE <<>>)
                        \o (IF platform = "Windows" /\ ~netsh_ok THEN <<>>
                            ELSE <<Call("notify", device.mac, device.ip, notify_ok),
                                   Call("privilege", device.mac, device.ip, privilege = "elevated")>>)
                /\ IF platform = "Windows" /\ ~netsh_ok THEN pc' = "menu" /\ idx' = idx
                   ELSE IF admin THEN pc' = "grace" /\ idx' = idx
                   ELSE pc' = "enforcing" /\ idx' = idx + 1
           ELSE /\ idx' = idx + 1
                /\ UNCHANGED <<firewall, calls, pc>>
    /\ UNCHANGED <<platform, now, file, scan_devices, scan_connection_times,
                   scan_blacklist, mgr_devices, mgr_connection_times, mgr_blacklist,
                   nmap_available, nm, devices, last>>

\* lines 208-229, one device up to the privilege check: block (on Windows),
\* notify, and with elevated privilege enter the grace delay.  calls keeps
\* whether the system reported elevated privilege as the ok of a "privilege" call.
MonitorDevice ==
    /\ pc = "enforcing"
    /\ idx <= Len(devices)
    /\ LET device == devices[idx]
       IN  IF must_block(device)
           THEN \E netsh_ok \in BOOLEAN, notify_ok \in BOOLEAN, privilege \in PrivilegeOutcomes :
                LET admin == check_admin_privileges(privilege) IN
                /\ firewall' = IF platform = "Windows"
                               THEN block_ip_windows(firewall, device.ip, netsh_ok)
                               ELSE firewall
                /\ calls' = calls
                        \o (IF platform = "Windows"
                            THEN <<Call("block", device.mac, device.ip, netsh_ok)>>
                            ELSE <<>>)
                        \o <<Call("notify", device.mac, device.ip, notify_ok),
                              Call("privilege", device.mac, device.ip, privilege = "elevated")>>
                /\ IF admin THEN pc' = "grace" /\ idx' = idx
                            ELSE pc' = "enforcing" /\ idx' = idx + 1
           ELSE /\ idx' = idx + 1
                /\ UNCHANGED <<firewall, calls, pc>>
    /\ UNCHANGED <<platform, now, file, scan_devices, scan_connection_times,
                   scan_blacklist, mgr_devices, mgr_connection_times, mgr_blacklist,
                   nmap_available, nm, devices, last>>

\* The disconnection as it would be if the loop dropped the entry of a device
\* once it has dealt with it.
MonitorDisconnectDropsEntry ==
    /\ pc = "grace"
    /\ LET device == devices[idx]
       IN  \E tool_ok \in BOOLEAN, wlan_found \in BOOLEAN :
            /\ tool_ok /\ platform # "Windows" =>
                    CopiesIn(Rule(device.ip, "INPUT"), firewall) < MaxRules
            /\ firewall' = disconnect_device(platform, firewall, device.ip, tool_ok, wlan_found)
            /\ calls' = Append(calls, Call("disconnect", device.mac, device.ip, tool_ok))
            /\ scan_blacklist' = MapDel(scan_blacklist, device.mac)
            /\ file' = FileOf(MapDel(scan_blacklist, device.mac))
    /\ idx' = idx + 1
    /\ pc' = "enforcing"
    /\ UNCHANGED <<platform, now, scan_devices, scan_connection_times,
                   mgr_devices, mgr_connection_times, mgr_blacklist,
                   nmap_available, nm, devices, last>>

\* lines 226-227: after time.sleep(5), notification_sender.disconnect_device.
MonitorDisconnect ==
    /\ pc = "grace"
    /\ LET device == devices[idx]
       IN  \E tool_ok \in BOOLEAN, wlan_found \in BOOLEAN :
            /\ tool_ok /\ platform # "Windows" =>
                    CopiesIn(Rule(device.ip, "INPUT"), firewall) < MaxRules
            /\ firewall' = disconnect_device(platform, firewall, device.ip, tool_ok, wlan_found)
            /\ calls' = Append(calls, Call("disconnect", device.mac, device.ip, tool_ok))
    /\ idx' = idx + 1
    /\ pc' = "enforcing"
    /\ UNCHANGED <<platform, now, file, scan_devices, scan_connection_times,
                   scan_blacklist, mgr_devices, mgr_connection_times, mgr_blacklist,
                   nmap_available, nm, devices, last>>

\* lines 231-232: the loop over the devices is over; sleep SCAN_INTERVAL.
MonitorSleep ==
    /\ pc = "enforcing"
    /\ idx > Len(devices)
    /\ pc' = "idle"
    /\ UNCHANGED <<platform, now, file, scan_devices, scan_connection_times,
                   scan_blacklist, mgr_devices, mgr_connection_times, mgr_blacklist,
                   nmap_available, nm, firewall, devices, idx, calls, last>>

\* line 197: the sleep returns, the next cycle starts.
MonitorWake ==
    /\ pc = "idle"
    /\ pc' = "scanning"
    /\ UNCHANGED <<platform, now, file, scan_devices, scan_connection_times,
                   scan_blacklist, mgr_devices, mgr_connection_times, mgr_blacklist,
                   nmap_available, nm, firewall, devices, idx, calls, last>>

\* lines 234-235: Ctrl+C ends auto-monitor mode.
Interrupt ==
    /\ pc \in {"scanning", "blocked", "enforcing", "grace", "idle"}
    /\ pc' = "menu"
    /\ last' = NoOp("monitor stopped")
    /\ devices' = <<>>
    /\ idx' = 0
    /\ calls' = <<>>
    /\ UNCHANGED <<platform, now, file, scan_devices, scan_connection_times,
                   scan_blacklist, mgr_devices, mgr_connection_times, mgr_blacklist,
                   nmap_available, nm, firewall>>

\* Ctrl+C while config.block_ip_windows runs for a device of the cycle (line
\* 213): KeyboardInterrupt is no Exception, so the except of block_ip_windows
\* lets it through; netsh has deleted the rule (config.py 168-171) and the add
\* (lines 173-181) has not been done.
InterruptBlock ==
    /\ pc = "enforcing"
    /\ idx <= Len(devices)
    /\ must_block(devices[idx])
    /\ platform = "Windows"
    /\ firewall' = delete_rule(firewall, devices[idx].ip)
    /\ pc' = "menu"
    /\ last' = NoOp("monitor stopped")
    /\ devices' = <<>>
    /\ idx' = 0
    /\ calls' = <<>>
    /\ UNCHANGED <<platform, now, file, scan_devices, scan_connection_times,
                   scan_blacklist, mgr_devices, mgr_connection_times, mgr_blacklist,
                   nmap_available, nm>>

\* Time passes.
Tick ==
    /\ now + ClockStep <= MaxTime
    /\ now' = now + ClockStep
    /\ UNCHANGED <<platform, file, scan_devices, scan_connection_times,
                   scan_blacklist, mgr_devices, mgr_connection_times, mgr_blacklist,
                   nmap_available, nm, firewall, pc, devices, idx, calls, last>>

Next ==
    \/ ScanDevices
    \/ BlacklistDevice
    \/ RemoveFromBlacklist
    \/ StartMonitor
    \/ MonitorScan
    \/ MonitorDevice
    \/ MonitorDisconnect
    \/ MonitorSleep
    \/ MonitorWake
    \/ Interrupt
    \/ InterruptBlock
    \/ Tick

Spec == Init /\ [][Next]_vars

(***************************************************************************)
(* The operator at the menu while a write of blacklist.json may fail.       *)
(***************************************************************************)
\* The process ends (menu choice 9, or Ctrl+C at the prompt) and is started
\* again: WiFiManager() builds a new scanner and a new manager, each of which
\* loads blacklist.json; nmap is looked for anew. The file, the firewall of
\* the system and the clock are those the ended process left.
Restart ==
    /\ pc = "menu"
    /\ scan_devices' = <<>>
    /\ scan_connection_times' = EmptyMap
    /\ scan_blacklist' = load_blacklist(file)
    /\ mgr_devices' = <<>>
    /\ mgr_connection_times' = EmptyMap
    /\ mgr_blacklist' = load_blacklist(file)
    /\ \E nmap_ok \in BOOLEAN :
        /\ nmap_available' = nmap_ok
        /\ nm' = IF nmap_ok THEN "scanner" ELSE NONE
    /\ calls' = <<>>
    /\ last' = NoOp("restart")
    /\ UNCHANGED <<platform, now, file, firewall, pc, devices, idx>>

BlacklistDeviceOnDisk == BlacklistDeviceSaving(SaveOutcomes)
RemoveFromBlacklistOnDisk == RemoveFromBlacklistSaving(SaveOutcomes)

NextStore ==
    \/ ScanDevices
    \/ BlacklistDeviceOnDisk
    \/ RemoveFromBlacklistOnDisk
    \/ Tick

SpecStore == Init /\ [][NextStore]_vars

(***************************************************************************)
(* Runs of the process one after the other over the same blacklist.json:   *)
(* menu choices 2 and 3 where a write may fail, and the process ending and *)
(* starting again. A run starts at either end of the clock.                 *)
(***************************************************************************)
NextRestart ==
    \/ BlacklistDeviceOnDisk
    \/ RemoveFromBlacklistOnDisk
    \/ Restart

InitRestart ==
    /\ platform \in {"Windows", "Linux"}
    /\ now \in {0, MaxTime}
    /\ file \in InitialFiles
    /\ firewall = EmptyBag
    /\ \E nmap_ok \in BOOLEAN : Construct(file, nmap_ok)

SpecRestart == InitRestart /\ [][NextRestart]_vars

(***************************************************************************)
(* The monitoring loop alone, with the calls that may not return.  The     *)
(* loop is sequential code: each of its steps is taken once the step       *)
(* before it has returned.                                                  *)
(***************************************************************************)
\* self.nm.scan(hosts=..., arguments='-sn') is called without python-nmap's
\* timeout argument (wifi_scanner.py 186 and 232): it returns when the nmap
\* process ends, and an nmap process that does not end keeps the cycle in the
\* call.
NmapHangs ==
    /\ pc = "scanning"
    /\ nmap_usable(nmap_available, nm)
    /\ pc' = "blocked"
    /\ UNCHANGED <<platform, now, file, scan_devices, scan_connection_times,
                   scan_blacklist, mgr_devices, mgr_connection_times, mgr_blacklist,
                   nmap_available, nm, firewall, devices, idx, calls, last>>

\* Ctrl+C while the cycle is inside a try whose except is bare: the nslookup
\* of get_hostname (wifi_scanner.py 156-170), a range of scan_multiple_ranges
\* (lines 230-248) or check_admin_privileges (main.py 23-30).  The except
\* takes the KeyboardInterrupt for a failure of the call and the cycle goes
\* on.  last keeps that a stop signal was delivered.
InterruptSwallowed ==
    /\ \/ pc = "scanning"
       \/ pc = "enforcing" /\ idx <= Len(devices) /\ must_block(devices[idx])
    /\ last' = NoOp("stop signal")
    /\ UNCHANGED <<platform, now, file, scan_devices, scan_connection_times,
                   scan_blacklist, mgr_devices, mgr_connection_times, mgr_blacklist,
                   nmap_available, nm, firewall, pc, devices, idx, calls>>

NextCycle ==
    \/ StartMonitor
    \/ MonitorScan
    \/ NmapHangs
    \/ MonitorDevice
    \/ MonitorDisconnect
    \/ MonitorSleep
    \/ MonitorWake
    \/ Interrupt
    \/ InterruptBlock
    \/ InterruptSwallowed

SpecCycle ==
    /\ Init
    /\ [][NextCycle]_vars
    /\ WF_vars(MonitorScan)
    /\ WF_vars(MonitorDevice)
    /\ WF_vars(MonitorDisconnect)
    /\ WF_vars(MonitorSleep)
    /\ WF_vars(MonitorWake)

(***************************************************************************)
(* DeviceManager.check_time_limit over the directories the scans make.     *)
(***************************************************************************)
\* time_limit_minutes as a caller may pass it: none, and the two limits around
\* one step of the clock.
TimeLimits == {0, ClockStep \div 60 - 1, ClockStep \div 60}

\* mac_address as a caller may pass it: the two stations as either backend
\* spells them.
AskedMacs == {ScapyMac("01"), NmapMac("01"), NmapMac("02")}

\* check_time_limit with >= for >.
check_time_limit_inclusive(dm_devices, mac_address, time_limit_minutes) ==
    IF mac_address \in Keys(dm_devices)
    THEN DictGet(dm_devices, mac_address).connection_duration >= time_limit_minutes * 60
    ELSE FALSE

\* DeviceManager.check_time_limit
check_time_limit(dm_devices, mac_address, time_limit_minutes) ==
    IF mac_address \in Keys(dm_devices)
    THEN DictGet(dm_devices, mac_address).connection_duration > time_limit_minutes * 60
    ELSE FALSE

\* A caller asks the scanner's DeviceManager; last keeps question and answer.
CheckTimeLimit ==
    /\ pc = "menu"
    /\ \E mac_address \in AskedMacs, time_limit_minutes \in TimeLimits :
        last' = [op |-> "limit", mac |-> mac_address, minutes |-> time_limit_minutes,
                 exceeded |-> check_time_limit(scan_devices, mac_address, time_limit_minutes)]
    /\ UNCHANGED <<platform, now, file, scan_devices, scan_connection_times,
                   scan_blacklist, mgr_devices, mgr_connection_times, mgr_blacklist,
                   nmap_available, nm, firewall, pc, devices, idx, calls>>

NextLimit ==
    \/ ScanDevices
    \/ CheckTimeLimit
    \/ Tick

SpecLimit == Init /\ [][NextLimit]_vars

(***************************************************************************)
(* The scans alone, over the wide answers of the backends.                  *)
(***************************************************************************)
WideInputs == ScanInputs(WideArpInputs(platform), WideNmapInputs, WideMultiInputs)

\* Whether nmap is run over the common ranges: scan_multiple_ranges is called
\* (line 269) and gets past its first lines (216-217).
ranges_scanned(available, arp_devices, nmap_devices) ==
    merge_into(merge_into(<<>>, arp_devices), nmap_devices) = <<>> /\ available

\* What last keeps of a scan when the scans alone are followed: the above,
\* which backend raised inside its try, and whether nmap was run over the
\* common ranges.
ScanTraceWide(in) ==
    LET trace == ScanTrace(in)
        failed == nmap_fails(nmap_available, nm, in.nmap)
    IN  [op |-> "scan",
         arp_devices |-> trace.arp_devices,
         nmap_devices |-> trace.nmap_devices,
         multi_range_devices |-> trace.multi_range_devices,
         local_offered |-> trace.local_offered,
         arp_failed |-> ~in.arp.ok,
         nmap_failed |-> failed,
         ranges_scanned |-> ranges_scanned(nmap_available /\ ~failed,
                                           trace.arp_devices, trace.nmap_devices)]

ScanDevicesWide ==
    /\ pc = "menu"
    /\ \E in \in WideInputs :
        /\ get_connected_devices(in)
        /\ last' = ScanTraceWide(in)
    /\ calls' = <<>>
    /\ UNCHANGED <<platform, now, file, mgr_devices, mgr_connection_times,
                   mgr_blacklist, firewall, pc, devices, idx>>

NextScan ==
    \/ ScanDevicesWide
    \/ Tick

\* The process starts over the blacklist of an earlier run, nmap installed.
InitScan ==
    /\ platform \in {"Windows", "Linux"}
    /\ now = 0
    /\ file = FileOf(EarlierBlacklist)
    /\ firewall = EmptyBag
    /\ Construct(file, TRUE)

SpecScan == InitScan /\ [][NextScan]_vars

(***************************************************************************)
(* Properties.                                                              *)
(***************************************************************************)
\* What list() returns for the scanner's directory now.
Listed == get_all_devices(scan_devices, now)

\* The calls of one kind made for one MAC by the operation in progress.
CallsOf(action, mac) == SelectSeq(calls, LAMBDA c : c.action = action /\ c.mac = mac)

\* The MACs the backends handed to the merge in the scan last stands for.
MacsOf(found) == {found[i].mac : i \in 1..Len(found)}
MergedMacs(trace) ==
    MacsOf(trace.arp_devices) \cup MacsOf(trace.nmap_devices)
        \cup MacsOf(trace.multi_range_devices)

\* C1: in every step, by whatever operation, a record that exists keeps its
\* first_seen (in the directory and in what list() shows), and a record that
\* appears has the time of the update call that created it as first_seen.
C1_FirstSeenSetOnce ==
    [][\A i \in 1..Len(scan_devices') :
        LET r == scan_devices'[i]
        IN  /\ get_all_devices(scan_devices', now')[i].first_seen = r.first_seen
            /\ IF r.mac \in Keys(scan_devices)
               THEN r.first_seen = DictGet(scan_devices, r.mac).first_seen
               ELSE r.first_seen = now]_vars

\* C1 witness: a record updated again at a later time than its first update.
C1_UpdatedLater ==
    \E i \in 1..Len(scan_devices) :
        scan_devices[i].last_seen > scan_devices[i].first_seen

\* C2: when a scan from the menu has listed the devices, is_blacklisted of
\* every listed record equals membership of its MAC in the blacklist as the
\* operator's add and remove operations have left it.
C2_ListShowsCurrentBlacklist ==
    last.op = "scan" =>
        \A i \in 1..Len(Listed) :
            Listed[i].is_blacklisted <=> Listed[i].mac \in DOMAIN mgr_blacklist

\* C3: at the end of an enforcement cycle on Windows, the block action has
\* been invoked for a device of the cycle's list if and only if the device is
\* in the blacklist and ACTIVE in that list.
C3_BlockIffBlacklistedActive ==
    (platform = "Windows" /\ pc = "idle") =>
        \A i \in 1..Len(devices) :
            CallsOf("block", devices[i].mac) # <<>>
                <=> (devices[i].mac \in DOMAIN mgr_blacklist /\ devices[i].status = "ACTIVE")

\* C4: when the operator has removed a blacklisted MAC on Windows and the
\* write succeeded, exactly one unblock action has been invoked, with the IP
\* stored in the entry.
C4_RemoveUnblocksStoredIp ==
    (platform = "Windows" /\ last.op = "remove" /\ last.error \notin {"not found", "IOError"}) =>
        /\ Len(CallsOf("unblock", last.mac)) = 1
        /\ CallsOf("unblock", last.mac)[1].ip = last.stored_ip

\* C5: when the operator has added a MAC the scanner's directory knows, the
\* blacklist entry of the MAC carries the ip of the directory's record.
C5_EntryHasDirectoryIp ==
    (last.op = "add" /\ last.mac \in Keys(scan_devices)) =>
        mgr_blacklist[last.mac].ip = DictGet(scan_devices, last.mac).ip

\* C6: no record of the directory has the broadcast or the all-zero hardware
\* address as its MAC.
C6_NoBroadcastOrZeroMac ==
    \A i \in 1..Len(scan_devices) : HwOf(scan_devices[i].mac) \notin {"ff", "00"}

\* C7: no record of the directory, and no device a backend handed to the
\* merge, has the local host's address as its ip.
C7_NoLocalAddress ==
    /\ \A i \in 1..Len(scan_devices) : scan_devices[i].ip # LOCAL_IP
    /\ last.op = "scan" =>
        \A found \in {last.arp_devices, last.nmap_devices, last.multi_range_devices} :
            \A i \in 1..Len(found) : found[i].ip # LOCAL_IP

\* C7 witness: a scan in which a backend saw the local host's address while
\* nmap reported a station that was recorded.
C7_LocalAddressSeen ==
    /\ last.op = "scan"
    /\ last.local_offered
    /\ last.nmap_devices # <<>>
    /\ scan_devices # <<>>

\* C8: after a scan in which the address table and nmap reported the same
\* MAC, the record of that MAC, in the directory and in what list() shows,
\* has the ip and the hostname nmap reported.
C8_NmapWins ==
    last.op = "scan" =>
        \A a \in 1..Len(last.arp_devices), n \in 1..Len(last.nmap_devices) :
            last.arp_devices[a].mac = last.nmap_devices[n].mac =>
                \E i \in 1..Len(scan_devices) :
                    /\ scan_devices[i].mac = last.nmap_devices[n].mac
                    /\ scan_devices[i].ip = last.nmap_devices[n].ip
                    /\ scan_devices[i].hostname = last.nmap_devices[n].hostname
                    /\ Listed[i].ip = last.nmap_devices[n].ip
                    /\ Listed[i].hostname = last.nmap_devices[n].hostname

\* C8 witness: a scan in which both backends reported one MAC, with different
\* hostnames.
C8_BothReportedOneMac ==
    /\ last.op = "scan"
    /\ \E a \in 1..Len(last.arp_devices), n \in 1..Len(last.nmap_devices) :
        /\ last.arp_devices[a].mac = last.nmap_devices[n].mac
        /\ last.arp_devices[a].hostname # last.nmap_devices[n].hostname

\* C9: no step removes a record from either directory; a scan from the menu
\* leaves the MACs known before united with the MACs merged in the scan; a
\* scan in which no backend returned a device leaves the directory, and what
\* list() returns, as they were.
C9_RecordsNeverRemoved ==
    [][/\ Keys(scan_devices) \subseteq Keys(scan_devices')
       /\ Keys(mgr_devices) \subseteq Keys(mgr_devices')
       /\ (pc = "menu" /\ pc' = "menu" /\ now' = now /\ last'.op = "scan") =>
            /\ Keys(scan_devices') =
                    Keys(scan_devices) \cup (MergedMacs(last') \ {UNKNOWN})
            /\ MergedMacs(last') = {} =>
                    /\ scan_devices' = scan_devices
                    /\ get_all_devices(scan_devices', now') = Listed]_vars

\* C9 witness: a scan in which no backend returned a device, with records
\* known from earlier scans.
C9_EmptyScanOverKnownDevices ==
    /\ last.op = "scan"
    /\ MergedMacs(last) = {}
    /\ Len(scan_devices) = 2

C11_ActiveIffSeenWithin300 ==
    \A i \in 1..Len(Listed) :
        LET age == now - scan_devices[i].last_seen
        IN  /\ Listed[i].status = "ACTIVE" <=> age < 300
            /\ Listed[i].status = "OFFLINE" <=> age >= 300
            /\ age = 300 => Listed[i].status = "OFFLINE"

\* C11 witness: a record last seen exactly 300 seconds ago, listed OFFLINE
\* beside a record seen now, listed ACTIVE.
C11_ExactlyAtTheWindow ==
    \E i, j \in 1..Len(Listed) :
        /\ now - scan_devices[i].last_seen = 300
        /\ Listed[i].status = "OFFLINE"
        /\ now - scan_devices[j].last_seen = 0
        /\ Listed[j].status = "ACTIVE"

\* C12: the enforcement loop stops only between two cycles, i.e. from the
\* sleep that follows a cycle, never during the scan, in the loop over the
\* devices or in the delay before a disconnect; and stopping leaves the
\* packet filter as it is.
C12_StopsOnlyBetweenCycles ==
    [][(pc # "menu" /\ pc' = "menu") => (pc = "idle" /\ firewall' = firewall)]_vars

\* The calls a step has added to those of the operation in progress.
NewCalls ==
    IF Len(calls') > Len(calls) /\ SubSeq(calls', 1, Len(calls)) = calls
    THEN SubSeq(calls', Len(calls) + 1, Len(calls'))
    ELSE <<>>

\* C13: a step of the enforcement loop in which a block, notify or disconnect
\* action fails stays in the cycle, at the same or the next device of the
\* same list; so when a cycle is over every blacklisted ACTIVE device of its
\* list has been notified (and, on Windows, blocked), and the loop goes on
\* to its next cycle.
C13_FailuresEndNeitherCycleNorLoop ==
    /\ [][(\E k \in 1..Len(NewCalls) : ~NewCalls[k].ok) =>
            /\ pc' \in {"enforcing", "grace"}
            /\ devices' = devices
            /\ idx' \in {idx, idx + 1}]_vars
    /\ [](pc = "idle" =>
            /\ \A i \in 1..Len(devices) :
                must_block(devices[i]) =>
                    /\ CallsOf("notify", devices[i].mac) # <<>>
                    /\ platform = "Windows" => CallsOf("block", devices[i].mac) # <<>>
            /\ ENABLED MonitorWake)

\* C13 witness: a cycle is over in which the block, the notification and the
\* disconnect of the first of two blacklisted ACTIVE devices failed and the
\* second was blocked, notified and disconnected.
C13_SecondDeviceAfterFailures ==
    /\ pc = "idle"
    /\ Len(devices) = 2
    /\ must_block(devices[1]) /\ must_block(devices[2])
    /\ \A a \in {"block", "notify", "disconnect"} :
        /\ \E k \in 1..Len(CallsOf(a, devices[1].mac)) : ~CallsOf(a, devices[1].mac)[k].ok
        /\ \E k \in 1..Len(CallsOf(a, devices[2].mac)) : CallsOf(a, devices[2].mac)[k].ok

\* C14: an add or remove whose write of blacklist.json fails leaves the store
\* such that load returns the blacklist that was persisted before the write.
C14_FailedSaveKeepsPersisted ==
    [][(/\ pc = "menu" /\ pc' = "menu"
        /\ last'.op \in {"add", "remove"}
        /\ last'.error = "IOError")
            => load_blacklist(file') = load_blacklist(file)]_vars

\* C15: after a start of the process the blacklist in memory is empty when
\* blacklist.json is missing or unreadable, and is exactly the mapping of the
\* file when the file is a valid snapshot; the start itself never fails, so
\* the process can be started again over any file.
C15_LoadEmptyOrSnapshot ==
    /\ last.op \in {"start", "restart"} =>
        /\ file.state # "ok" =>
            mgr_blacklist = EmptyMap /\ scan_blacklist = EmptyMap
        /\ file.state = "ok" =>
            mgr_blacklist = file.data /\ scan_blacklist = file.data
    /\ ENABLED Restart

\* C15 witnesses: a start over a file left corrupt by a failed write, after a
\* run that had entries.
C15_StartedOverCorruptFile ==
    /\ last.op = "restart"
    /\ file.state = "corrupt"
    /\ mgr_blacklist = EmptyMap
    /\ scan_blacklist = EmptyMap

\* C17: a start of the process loads the blacklist the ended process had in
\* memory: every entry added and not removed, with its reason, timestamp and
\* ip, and no entry that was removed.
C17_RestartKeepsEntries ==
    [][(last'.op = "restart" /\ pc = "menu") =>
            /\ mgr_blacklist' = mgr_blacklist
            /\ scan_blacklist' = mgr_blacklist]_vars

\* C16: when the write of blacklist.json fails during an add or a remove, the
\* error reaches the caller of that add or remove: the operation ends with
\* the error and runs nothing after the save.
C16_WriteFailureRaised ==
    [][(file' = FileCorrupt /\ file # FileCorrupt) =>
            /\ last'.op \in {"add", "remove"}
            /\ last'.error = "IOError"
            /\ firewall' = firewall
            /\ calls' = <<>>]_vars

\* C16 witness: an add ended with the error of a failed write.
C16_AddEndedWithWriteError ==
    /\ last.op = "add"
    /\ last.error = "IOError"
    /\ file = FileCorrupt
    /\ last.mac \in DOMAIN mgr_blacklist

\* C18: the blacklist, in the memory of either DeviceManager and in
\* blacklist.json, changes only in an add or a remove of the operator: no
\* scan and no step of the monitoring loop changes it, whatever the outcome
\* of the actions of the loop.
C18_OnlyOperatorChangesBlacklist ==
    [][(\/ mgr_blacklist' # mgr_blacklist
        \/ scan_blacklist' # scan_blacklist
        \/ file' # file) =>
            /\ pc = "menu"
            /\ pc' = "menu"
            /\ last'.op \in {"add", "remove"}]_vars

\* C18 witness: a pass of the loop is over, the disconnection of a
\* blacklisted device failed, and its entry is still in memory and on disk.
C18_EntryKeptAfterFailedDisconnect ==
    /\ pc = "idle"
    /\ file = FileOf(scan_blacklist)
    /\ \E k \in 1..Len(calls) :
        /\ calls[k].action = "disconnect"
        /\ ~calls[k].ok
        /\ calls[k].mac \in DOMAIN scan_blacklist
        /\ calls[k].mac \in DOMAIN mgr_blacklist

\* Whether the directory has a record of the device's MAC with the ip and the
\* hostname of the device.
Recorded(device) ==
    \E i \in 1..Len(scan_devices) :
        /\ scan_devices[i].mac = device.mac
        /\ scan_devices[i].ip = device.ip
        /\ scan_devices[i].hostname = device.hostname

\* C19: after a scan in which a backend raised, that backend has handed no
\* device to the merge, the scan has completed, and every device the other
\* backend returned under a MAC is recorded in the directory as returned.
C19_FailedBackendCountsAsNone ==
    last.op = "scan" =>
        /\ last.arp_failed =>
            /\ last.arp_devices = <<>>
            /\ \A n \in 1..Len(last.nmap_devices) :
                last.nmap_devices[n].mac # UNKNOWN => Recorded(last.nmap_devices[n])
        /\ last.nmap_failed =>
            /\ last.nmap_devices = <<>>
            /\ \A a \in 1..Len(last.arp_devices) :
                last.arp_devices[a].mac # UNKNOWN => Recorded(last.arp_devices[a])

\* C19 witness: a scan in which nmap raised and the address table returned a
\* station, which is recorded.
C19_NmapFailedArpRecorded ==
    /\ last.op = "scan"
    /\ last.nmap_failed
    /\ ~last.arp_failed
    /\ last.arp_devices # <<>>
    /\ Recorded(last.arp_devices[1])

\* C20 as stated: after a scan, nmap has been run over the common ranges if
\* and only if the merge of what the two backends returned was empty.
C20_RangesScannedIffMergeEmpty ==
    last.op = "scan" =>
        (last.ranges_scanned <=> (last.arp_devices = <<>> /\ last.nmap_devices = <<>>))

\* C20 amended: after a scan, nmap has been run over the common ranges if and
\* only if the merge of what the two backends returned was empty and nmap was
\* still available then; every device that run returned under a MAC is
\* recorded, and without that run the ranges contribute no device.
C20_RangesScannedIffMergeEmptyAndNmap ==
    last.op = "scan" =>
        /\ last.ranges_scanned <=>
            (last.arp_devices = <<>> /\ last.nmap_devices = <<>> /\ nmap_available)
        /\ last.ranges_scanned =>
            \A m \in 1..Len(last.multi_range_devices) :
                last.multi_range_devices[m].mac # UNKNOWN =>
                    Recorded(last.multi_range_devices[m])
        /\ ~last.ranges_scanned => last.multi_range_devices = <<>>

\* C20 witness: a scan with an empty merge in which the run over the common
\* ranges found a station, which is recorded.
C20_RangesFoundAStation ==
    /\ last.op = "scan"
    /\ last.ranges_scanned
    /\ last.multi_range_devices # <<>>
    /\ Recorded(last.multi_range_devices[1])

\* C21: within the loop the actions on a device come in the order block (on
\* Windows), notify, privilege check, disconnect: a disconnect directly
\* follows a privilege check of the same device that reported elevated
\* privilege, the check directly follows the notification of the device, and
\* on Windows the notification directly follows the block of the device.
C21_BlockNotifyThenPrivilegedDisconnect ==
    pc # "menu" =>
        \A k \in 1..Len(calls) :
            /\ calls[k].action = "disconnect" =>
                /\ k > 1
                /\ calls[k - 1] = Call("privilege", calls[k].mac, calls[k].ip, TRUE)
            /\ calls[k].action = "privilege" =>
                /\ k > 1
                /\ calls[k - 1].action = "notify"
                /\ calls[k - 1].mac = calls[k].mac
            /\ (calls[k].action = "notify" /\ platform = "Windows") =>
                /\ k > 1
                /\ calls[k - 1].action = "block"
                /\ calls[k - 1].mac = calls[k].mac

\* C21 witness: a cycle on Windows is over in which one blacklisted ACTIVE
\* device was blocked, notified and, privilege reported, disconnected, and
\* another was blocked and notified but, privilege not reported, not
\* disconnected.
C21_OneDisconnectedOneNot ==
    /\ pc = "idle"
    /\ platform = "Windows"
    /\ \E i, j \in 1..Len(devices) :
        /\ CallsOf("block", devices[i].mac) # <<>>
        /\ CallsOf("disconnect", devices[i].mac) # <<>>
        /\ CallsOf("privilege", devices[j].mac) # <<>>
        /\ ~CallsOf("privilege", devices[j].mac)[1].ok
        /\ CallsOf("disconnect", devices[j].mac) = <<>>

\* C22: whatever blocks have been applied and re-applied, the packet filter
\* holds every block rule of an address once: no rule is there twice.
C22_NoBlockRuleTwice ==
    \A r \in BagToSet(firewall) : CopiesIn(r, firewall) = 1

\* C23: the directory never has two records of one hardware address: records
\* whose MACs name the same hardware, in whatever case or separator the
\* backends reported it, are one record.
C23_OneRecordPerHardwareAddress ==
    \A i, j \in 1..Len(scan_devices) :
        HwOf(scan_devices[i].mac) = HwOf(scan_devices[j].mac) => i = j

\* The devices the merge of a scan hands to update_device: nmap's, the address
\* table's whose MAC nmap did not report, and those of the common ranges.
Updated(trace) ==
    {trace.nmap_devices[n] : n \in 1..Len(trace.nmap_devices)}
    \cup {trace.arp_devices[a] : a \in {x \in 1..Len(trace.arp_devices) :
                trace.arp_devices[x].mac \notin MacsOf(trace.nmap_devices)}}
    \cup {trace.multi_range_devices[m] : m \in 1..Len(trace.multi_range_devices)}

\* C24: in every step that is a scan, the record of each device handed to
\* update_device has, after the step, the ip and the hostname of that device
\* and the time of the step as last_seen, whatever the directory held before.
C24_UpdateOverwrites ==
    [][(last'.op = "scan" /\ now' = now) =>
        \A device \in Updated(last') :
            device.mac # UNKNOWN =>
                \E i \in 1..Len(scan_devices') :
                    /\ scan_devices'[i].mac = device.mac
                    /\ scan_devices'[i].ip = device.ip
                    /\ scan_devices'[i].hostname = device.hostname
                    /\ scan_devices'[i].last_seen = now]_vars

\* C24 witness: the last scan updated a record made at an earlier time, and
\* the record has the ip, the hostname and the time of that scan.
C24_OlderRecordOverwritten ==
    /\ last.op = "scan"
    /\ \E device \in Updated(last) :
        \E i \in 1..Len(scan_devices) :
            /\ scan_devices[i].mac = device.mac
            /\ scan_devices[i].first_seen < now
            /\ scan_devices[i].last_seen = now
            /\ scan_devices[i].ip = device.ip
            /\ scan_devices[i].hostname = device.hostname

\* C25: no step lowers the last_seen of a record of the directory, and in
\* every state every record has first_seen <= last_seen.
C25_LastSeenNeverDecreases ==
    /\ [][\A i \in 1..Len(scan_devices), j \in 1..Len(scan_devices') :
            scan_devices[i].mac = scan_devices'[j].mac =>
                scan_devices'[j].last_seen >= scan_devices[i].last_seen]_vars
    /\ [](\A i \in 1..Len(scan_devices) :
            scan_devices[i].first_seen <= scan_devices[i].last_seen)

\* C25 witness: one record has been updated at a later time than it was made,
\* another has not been seen since it was made at an earlier time.
C25_OneUpdatedOneNot ==
    \E i, j \in 1..Len(scan_devices) :
        /\ scan_devices[i].first_seen < scan_devices[i].last_seen
        /\ scan_devices[i].last_seen = now
        /\ scan_devices[j].first_seen = scan_devices[j].last_seen
        /\ scan_devices[j].last_seen < now

\* C26: check_time_limit answers true exactly when the MAC has a record whose
\* last_seen - first_seen is strictly greater than the limit in minutes times
\* 60, and false for a MAC without a record.
C26_ExceedsIffDurationOverLimit ==
    last.op = "limit" =>
        /\ last.exceeded <=>
            \E i \in 1..Len(scan_devices) :
                /\ scan_devices[i].mac = last.mac
                /\ scan_devices[i].last_seen - scan_devices[i].first_seen > last.minutes * 60
        /\ last.mac \notin Keys(scan_devices) => ~last.exceeded

\* C26 witness: the limit was found exceeded for a record seen again one
\* step of the clock after it was made, under a limit just below that step.
C26_LimitExceeded ==
    /\ last.op = "limit"
    /\ last.exceeded
    /\ last.minutes > 0
    /\ DictGet(scan_devices, last.mac).connection_duration = ClockStep

\* Whether the packet filter has a block rule for the address.
Blocked(fw, ip) == \E r \in BagToSet(fw) : r.ip = ip

\* C27: no step in which a device stays blacklisted takes the block off its
\* address: when the address of a record was blocked before the step and the
\* MAC of the record is in the blacklist before and after it, the address is
\* blocked after it.
C27_BlockStaysWhileBlacklisted ==
    [][\A i \in 1..Len(scan_devices) :
        (/\ scan_devices[i].mac \in DOMAIN scan_blacklist
         /\ scan_devices[i].mac \in DOMAIN mgr_blacklist
         /\ scan_devices[i].mac \in DOMAIN mgr_blacklist'
         /\ Blocked(firewall, scan_devices[i].ip))
            => Blocked(firewall', scan_devices[i].ip)]_vars

\* C28: a cycle that has entered its scan reaches the sleep between cycles,
\* unless the operator stops the loop.
C28_CycleReturnsToIdle == (pc = "scanning") ~> (pc \in {"idle", "menu"})

\* C29: when a remove of a MAC has completed, the packet filter has no block
\* rule for the address of the MAC's record, the address the loop blocked for
\* it.
C29_RemoveClearsLoopBlocks ==
    (last.op = "remove" /\ last.error = "none") =>
        \A i \in 1..Len(scan_devices) :
            scan_devices[i].mac = last.mac => ~Blocked(firewall, scan_devices[i].ip)

\* C30: once a stop signal has been delivered to the running loop, the loop
\* ends: the program is back at the menu.
C30_StopSignalEndsLoop == (last.op = "stop signal") ~> (pc = "menu")

\* C31: after an add or a remove, completed or failed, the blacklist in the
\* memory of the DeviceManager that ran it equals the blacklist a load of
\* blacklist.json returns.
C31_MemoryEqualsPersisted ==
    last.op \in {"add", "remove"} => mgr_blacklist = load_blacklist(file)

\* C32: within a process nmap never becomes available again once it is not;
\* a scan in which nmap raised leaves it unavailable; and a scan that leaves
\* nmap unavailable has no device from nmap and none from the common ranges,
\* which were not scanned.
C32_NmapOnlyEverDisabled ==
    /\ [][(~nmap_available => ~nmap_available') /\ (nm = NONE => nm' = NONE)]_vars
    /\ [](last.op = "scan" =>
            /\ last.nmap_failed => (~nmap_available /\ nm = NONE)
            /\ ~nmap_available =>
                /\ last.nmap_devices = <<>>
                /\ last.multi_range_devices = <<>>
                /\ ~last.ranges_scanned)

\* C32 witness: a scan after the one in which nmap raised: nmap was skipped,
\* the address table returned nothing, and no range was scanned for the
\* empty merge.
C32_SkippedAfterFailure ==
    /\ last.op = "scan"
    /\ ~last.nmap_failed
    /\ ~nmap_available
    /\ nm = NONE
    /\ last.arp_devices = <<>>
    /\ ~last.ranges_scanned

====
